---- MODULE Spec2Model ----
(***************************************************************************)
(* A model of the telecom plan recommender web application:                *)
(*   app/model/recommender.py  the rule-based recommender                  *)
(*   app/main.py               the cached customer table, its sources,     *)
(*                             the filter/sort/limit helper and the        *)
(*                             request handlers                            *)
(*                                                                         *)
(* Four specifications share the definitions below:                        *)
(*   SpecRec   recommend_plan applied to enumerated usage profiles         *)
(*   Spec      the request handlers, one request at a time, over a file    *)
(*             system and an object store that change between requests     *)
(*   SpecData  the request handlers over enumerated customer tables and    *)
(*             the full space of query parameters                          *)
(*   SpecRace  load_data and summary_stats executed statement by statement *)
(*             by concurrent request threads                               *)
(*                                                                         *)
(* Numbers.  A pandas cell is a number or NaN (a blank CSV cell).  Usage   *)
(* figures are whole GB / minutes / SMS.  Money is counted in units of     *)
(* 1/Scale rupee so that round(x, 2) is a real rounding.                   *)
(***************************************************************************)
EXTENDS Integers, Sequences, FiniteSets, TLC

VARIABLES
    cache,        \* _customers_cache as seen by sequential requests
    cacheBefore,  \* _customers_cache as the last operation found it
    localFile,    \* what is at the CUSTOMER_DATA path
    minioClient,  \* what get_minio_client() yields for this process
    minioObj,     \* what bucket/object the object store holds
    tmpFile,      \* what is at _TEMP_DOWNLOAD_PATH
    op,           \* the operation that ran last
    args,         \* request.args (or the path parameter) of that operation
    loadRet,      \* what load_data() returned to that operation
    tried,        \* the sources load_data() accessed in that operation, in order
    raised,       \* the exception that escaped load_data(), if any
    resp,         \* the response of that operation
    customer,     \* SpecRec: the dict handed to recommend_plan
    rec,          \* SpecRec: the dict it returned
    heap,         \* SpecRace: the DataFrame objects, by object id
    cacheRef,     \* SpecRace: _customers_cache, a reference into heap
    pc,           \* SpecRace: each thread's position
    local,        \* SpecRace: each thread's local variables
    reqs,         \* SpecRace: how many requests have started
    changes       \* SpecRace: how many times the sources have changed

vars == <<cache, cacheBefore, localFile, minioClient, minioObj, tmpFile, op, args, loadRet,
          tried, raised, resp, customer, rec, heap, cacheRef, pc, local, reqs, changes>>

repoVars == <<cache, cacheBefore, localFile, minioClient, minioObj, tmpFile, op, args,
              loadRet, tried, raised, resp>>
recVars  == <<customer, rec>>
raceVars == <<heap, cacheRef, pc, local, reqs, changes>>

-----------------------------------------------------------------------------
(* Bounds of the model *)

MaxRows     == 2    \* rows of an enumerated customer table (SpecData)
MaxLimit    == 3    \* |limit| of an integer limit parameter
MaxRequests == 3    \* requests started in SpecRace
MaxChanges  == 1    \* file-system / object-store changes in SpecRace

-----------------------------------------------------------------------------
(* Numbers *)

\* float('nan'): what pandas holds for a blank numeric cell
NaN == 999999999

\* resolution of money amounts: 1 rupee = Scale units
Scale == 1000

IsNaN(x) == x = NaN

\* Python's float comparisons: every comparison with NaN is False
FLt(a, b) == ~IsNaN(a) /\ ~IsNaN(b) /\ a < b
FGt(a, b) == ~IsNaN(a) /\ ~IsNaN(b) /\ a > b
FLe(a, b) == ~IsNaN(a) /\ ~IsNaN(b) /\ a <= b

\* float subtraction: NaN propagates
FSub(a, b) == IF IsNaN(a) \/ IsNaN(b) THEN NaN ELSE a - b

\* round(x, 2): to the nearest multiple of Scale/100, ties to even; NaN stays NaN
Round2(x) ==
    IF IsNaN(x) THEN NaN
    ELSE LET step == Scale \div 100
             r    == x % step
             lo   == x - r
         IN  IF 2 * r < step THEN lo
             ELSE IF 2 * r > step THEN lo + step
             ELSE IF (lo \div step) % 2 = 0 THEN lo ELSE lo + step

\* dict.get(key, default)
Get(d, k, default) == IF k \in DOMAIN d THEN d[k] ELSE default

-----------------------------------------------------------------------------
(* app/model/recommender.py *)

PLAN_CATALOG ==
    << [name |-> "Basic",    data_gb |-> 10,  minutes |-> 200,  sms |-> 100,  price |-> 199 * Scale],
       [name |-> "Standard", data_gb |-> 50,  minutes |-> 1000, sms |-> 500,  price |-> 499 * Scale],
       [name |-> "Premium",  data_gb |-> 200, minutes |-> 3000, sms |-> 2000, price |-> 999 * Scale] >>

\* the selection with inclusive Basic bounds
SelectPlanInclusive(data, mins, sms) ==
    IF FLe(data, 8) /\ FLe(mins, 300) /\ FLe(sms, 150) THEN PLAN_CATALOG[1]
    ELSE IF FLt(data, 80) /\ FLt(mins, 1500) /\ FLt(sms, 1000) THEN PLAN_CATALOG[2]
    ELSE PLAN_CATALOG[3]

\* the plan selection rules
SelectPlan(data, mins, sms) ==
    IF FLt(data, 8) /\ FLt(mins, 300) /\ FLt(sms, 150) THEN PLAN_CATALOG[1]
    ELSE IF FLt(data, 80) /\ FLt(mins, 1500) /\ FLt(sms, 1000) THEN PLAN_CATALOG[2]
    ELSE PLAN_CATALOG[3]

recommend_plan(c) ==
    LET data    == Get(c, "avg_monthly_data_gb", 0)
        mins    == Get(c, "avg_monthly_minutes", 0)
        sms     == Get(c, "avg_monthly_sms", 0)
        spend   == Get(c, "avg_monthly_spend", 0)
        plan    == SelectPlan(data, mins, sms)
        savings == FSub(spend, plan.price)
    IN  [ customer_id            |-> Get(c, "customer_id", -1),
          recommended_plan       |-> plan.name,
          estimated_monthly_bill |-> plan.price,
          estimated_savings      |-> Round2(savings),
          recommendation_reason  |-> IF FGt(savings, 0) THEN "to save money"
                                     ELSE "for better data benefits and to avoid extra charges" ]

-----------------------------------------------------------------------------
(* Tables.  A DataFrame is [cols, rows]: its column set and its rows in    *)
(* order, each row a function from the columns to cell values.             *)

ExpectedColumns ==
    {"customer_id", "name", "region", "avg_monthly_data_gb",
     "avg_monthly_minutes", "avg_monthly_sms", "avg_monthly_spend"}

StringColumns == {"name", "region"}

\* _customers_cache = None
None == [isNone |-> TRUE]

\* pd.DataFrame(columns=[...the seven...])
EmptyDataFrame == [cols |-> ExpectedColumns, rows |-> <<>>]

\* DataFrame.empty
IsEmpty(df) == df.cols = {} \/ Len(df.rows) = 0

\* all seven expected columns are there, in the frame and in each of its rows
Complete(df) ==
    /\ ExpectedColumns \subseteq df.cols
    /\ \A i \in 1..Len(df.rows) : DOMAIN df.rows[i] = df.cols

\* a normalisation that adds nothing
NormalizeNothing(df) == df

\* load_data, the "for col in [...]" loop: every missing expected column is
\* added, "" for name and region and 0 for the others.  The astype(int) cast
\* of customer_id leaves integer ids as they are.
NormalizeColumns(df) ==
    LET cs == df.cols \cup ExpectedColumns
        Fill(row) == [c \in cs |-> IF c \in df.cols THEN row[c]
                                   ELSE IF c \in StringColumns THEN "" ELSE 0]
    IN  [cols |-> cs, rows |-> [i \in 1..Len(df.rows) |-> Fill(df.rows[i])]]

-----------------------------------------------------------------------------
(* Files and the object store *)

Absent  == [kind |-> "absent"]     \* no file at the path
Corrupt == [kind |-> "corrupt"]    \* a file pd.read_csv cannot parse
Csv(df) == [kind |-> "csv", df |-> df]

\* what the object store answers
Unreachable == [kind |-> "unreachable"]   \* bucket_exists raises S3Error
NoBucket    == [kind |-> "nobucket"]      \* bucket_exists returns False
NoObject    == [kind |-> "noobject"]      \* fget_object raises

NoExc == "none"

\* os.path.exists
Exists(f) == f.kind # "absent"

\* get_minio_client: a client unless the configuration is missing or the
\* constructor raises
get_minio_client(mc) == mc = "ok"

\* download_customer_data_from_minio: the object is written to the temp path
\* and the path returned, or RuntimeError is raised
download_customer_data_from_minio(mo, tf) ==
    IF mo.kind \in {"unreachable", "nobucket", "noobject"}
    THEN [exc |-> "RuntimeError", tmp |-> tf]
    ELSE [exc |-> NoExc, tmp |-> mo]

\* the lookup with the object store asked first
EnsureRemoteFirst(lf, mc, mo, tf) ==
    LET d == download_customer_data_from_minio(mo, tf)
    IN  IF get_minio_client(mc) /\ d.exc = NoExc
        THEN [exc |-> NoExc, path |-> "tmp", tried |-> <<"minio">>, tmp |-> d.tmp]
        ELSE IF Exists(lf)
        THEN [exc |-> NoExc, path |-> "local", tried |-> <<"minio", "local">>, tmp |-> d.tmp]
        ELSE [exc |-> "FileNotFoundError", path |-> "", tried |-> <<"minio", "local">>, tmp |-> d.tmp]

\* ensure_customer_data_available: the local path if it exists, else a
\* download if a client is configured, else FileNotFoundError
ensure_customer_data_available(lf, mc, mo, tf) ==
    IF Exists(lf)
    THEN [exc |-> NoExc, path |-> "local", tried |-> <<"local">>, tmp |-> tf]
    ELSE IF get_minio_client(mc)
    THEN LET d == download_customer_data_from_minio(mo, tf)
         IN  IF d.exc = NoExc
             THEN [exc |-> NoExc, path |-> "tmp", tried |-> <<"local", "minio">>, tmp |-> d.tmp]
             ELSE [exc |-> "FileNotFoundError", path |-> "", tried |-> <<"local", "minio">>, tmp |-> d.tmp]
    ELSE [exc |-> "FileNotFoundError", path |-> "", tried |-> <<"local">>, tmp |-> tf]

\* pd.read_csv
read_csv(f) ==
    IF f.kind = "absent" THEN [exc |-> "FileNotFoundError", df |-> EmptyDataFrame]
    ELSE IF f.kind = "corrupt" THEN [exc |-> "ParserError", df |-> EmptyDataFrame]
    ELSE [exc |-> NoExc, df |-> f.df]

\* the cache test that never hits
CacheHitNever(c) == FALSE

\* the cache test that takes any table, empty or not
CacheHitAnyTable(c) == c # None

\* load_data: "_customers_cache is not None and not _customers_cache.empty"
CacheHit(c) == c # None /\ ~IsEmpty(c)

\* an except clause that catches nothing
CatchesNothing(exc) == FALSE

\* load_data: "except FileNotFoundError"
CatchesFileNotFound(exc) == exc = "FileNotFoundError"

\* load_data: "except Exception"
CatchesException(exc) == exc \in {"FileNotFoundError", "ParserError", "RuntimeError"}

\* the body of load_data's try block: the frame it builds, or the exception
TryLoad(lf, mc, mo, tf) ==
    LET e == ensure_customer_data_available(lf, mc, mo, tf)
        r == read_csv(IF e.path = "local" THEN lf ELSE e.tmp)
    IN  IF e.exc # NoExc
        THEN [exc |-> e.exc, df |-> EmptyDataFrame, tried |-> e.tried, tmp |-> e.tmp]
        ELSE IF r.exc # NoExc
        THEN [exc |-> r.exc, df |-> EmptyDataFrame, tried |-> e.tried, tmp |-> e.tmp]
        ELSE [exc |-> NoExc, df |-> NormalizeColumns(r.df), tried |-> e.tried, tmp |-> e.tmp]

\* load_data
load_data(c, lf, mc, mo, tf) ==
    IF CacheHit(c)
    THEN [cache |-> c, ret |-> c, tried |-> <<>>, tmp |-> tf, raised |-> NoExc]
    ELSE LET t == TryLoad(lf, mc, mo, tf)
         IN  IF t.exc = NoExc
             THEN [cache |-> t.df, ret |-> t.df, tried |-> t.tried, tmp |-> t.tmp, raised |-> NoExc]
             ELSE IF CatchesFileNotFound(t.exc) \/ CatchesException(t.exc)
             THEN [cache |-> EmptyDataFrame, ret |-> EmptyDataFrame, tried |-> t.tried,
                   tmp |-> t.tmp, raised |-> NoExc]
             ELSE [cache |-> c, ret |-> None, tried |-> t.tried, tmp |-> t.tmp, raised |-> t.exc]

-----------------------------------------------------------------------------
(* Query parameters.  request.args is [region, sort, order, limit]; a      *)
(* string parameter that was not sent is NoArg; limit is absent, text that *)
(* int() rejects, or an integer.                                           *)

NoArg == "<absent>"

NoLimit      == [kind |-> "absent", val |-> 0]
TextLimit    == [kind |-> "text", val |-> 0]
IntLimit(n)  == [kind |-> "int", val |-> n]

\* str.lower on the region names and order words of the model
Lower(s) ==
    CASE s = "North" -> "north"
      [] s = "SOUTH" -> "south"
      [] s = "DESC"  -> "desc"
      [] OTHER       -> s

Min(a, b) == IF a < b THEN a ELSE b
Max(a, b) == IF a > b THEN a ELSE b

\* results[:n]: a negative n counts from the end
Slice(s, n) ==
    IF n >= 0 THEN SubSeq(s, 1, Min(n, Len(s)))
    ELSE SubSeq(s, 1, Max(Len(s) + n, 0))

\* every ordering of a list
Perms(s) ==
    LET n == Len(s)
        P == {p \in [1..n -> 1..n] : \A i, j \in 1..n : i # j => p[i] # p[j]}
    IN  {[i \in 1..n |-> s[p[i]]] : p \in P}

\* one step of a stable insertion sort: x goes before the first element that
\* must follow it
RECURSIVE InsertSorted(_, _, _, _)
InsertSorted(x, s, k, reverse) ==
    IF s = <<>> THEN <<x>>
    ELSE LET y == Head(s)
             before == IF reverse THEN Get(y, k, 0) < Get(x, k, 0)
                                  ELSE Get(x, k, 0) < Get(y, k, 0)
         IN  IF before THEN <<x>> \o s
             ELSE <<y>> \o InsertSorted(x, Tail(s), k, reverse)

RECURSIVE StableSort(_, _, _)
StableSort(s, k, reverse) ==
    IF s = <<>> THEN <<>>
    ELSE InsertSorted(s[Len(s)], StableSort(SubSeq(s, 1, Len(s) - 1), k, reverse), k, reverse)

\* sorted(results, key=lambda x: x.get(sort_col, 0), reverse=...): the stable
\* sort; with a NaN among the keys the comparisons are not an order and the
\* outcome is whatever the sort algorithm makes of them, any ordering here
SortOutcomes(s, k, reverse) ==
    IF \E i \in 1..Len(s) : IsNaN(Get(s[i], k, 0))
    THEN Perms(s)
    ELSE {StableSort(s, k, reverse)}

\* the region test of apply_filters_sort_limit on one record
RegionMatches(r, region_filter) == Lower(Get(r, "region", "")) = Lower(region_filter)

\* int(request.args.get("limit", 10)), 10 when int() raises
LimitOf(a) == IF a.limit.kind = "int" THEN a.limit.val ELSE 10

\* apply_filters_sort_limit(df, results, default_sort, default_order) under
\* request.args = a: the (page, total) pairs it can return
apply_filters_sort_limit(df, results, a, default_sort, default_order) ==
    LET region_filter == a.region
        Keep(r)    == RegionMatches(r, region_filter)
        filtered   == IF region_filter \notin {NoArg, ""} /\ ~IsEmpty(df)
                      THEN SelectSeq(results, Keep) ELSE results
        sort_col   == IF a.sort = NoArg THEN default_sort ELSE a.sort
        sort_order == IF a.order = NoArg THEN default_order ELSE a.order
        sortedSet  == IF filtered # <<>> /\ sort_col \in DOMAIN filtered[1]
                      THEN SortOutcomes(filtered, sort_col, Lower(sort_order) = "desc")
                      ELSE {filtered}
    IN  {[page |-> Slice(s, LimitOf(a)), total |-> Len(s)] : s \in sortedSet}

-----------------------------------------------------------------------------
(* What the handlers compute from the table *)

\* df[[...the seven columns...]].to_dict(orient="records")
CustomerRecords(df) ==
    [i \in 1..Len(df.rows) |-> [c \in ExpectedColumns |-> df.rows[i][c]]]

\* {"customer_id": ..., "name": ..., "region": ..., **rec}
OpportunityRecord(row) ==
    LET r == recommend_plan(row)
    IN  [ customer_id            |-> r.customer_id,
          name                   |-> Get(row, "name", ""),
          region                 |-> Get(row, "region", ""),
          recommended_plan       |-> r.recommended_plan,
          estimated_monthly_bill |-> r.estimated_monthly_bill,
          estimated_savings      |-> r.estimated_savings,
          recommendation_reason  |-> r.recommendation_reason ]

OpportunityRecords(df) == [i \in 1..Len(df.rows) |-> OpportunityRecord(df.rows[i])]

\* top_savings: rec.get("estimated_savings", 0) > 0
IsSavings(r) == FGt(r.estimated_savings, 0)

\* top_upsell: rec.get("estimated_savings", 0) < 0
IsUpsell(r) == FLt(r.estimated_savings, 0)

SavingsResults(df) == SelectSeq(OpportunityRecords(df), IsSavings)
UpsellResults(df)  == SelectSeq(OpportunityRecords(df), IsUpsell)

\* df[df["region"].str.lower() == region_filter.lower()]: a new frame
FilterRegion(df, region_filter) ==
    LET Keep(row) == Lower(row["region"]) = Lower(region_filter)
    IN  [cols |-> df.cols, rows |-> SelectSeq(df.rows, Keep)]

\* df[df['customer_id'] == customer_id]: a new frame
FilterId(df, id) ==
    LET Keep(row) == row["customer_id"] = id
    IN  [cols |-> df.cols, rows |-> SelectSeq(df.rows, Keep)]

\* summary_stats: df["rec"] = df.apply(lambda row: recommend_plan(...), axis=1):
\* the frame itself gets, or gets again, the column
AddRecColumn(df) ==
    LET cs == df.cols \cup {"rec"}
        Ext(row) == [c \in cs |-> IF c = "rec" THEN recommend_plan(row) ELSE row[c]]
    IN  [cols |-> cs, rows |-> [i \in 1..Len(df.rows) |-> Ext(df.rows[i])]]

\* summary_stats: df["savings"] = df["rec"].apply(lambda r: r.get("estimated_savings", 0))
AddSavingsColumn(df) ==
    LET cs == df.cols \cup {"savings"}
        Ext(row) == [c \in cs |-> IF c = "savings"
                                  THEN Get(row["rec"], "estimated_savings", 0)
                                  ELSE row[c]]
    IN  [cols |-> cs, rows |-> [i \in 1..Len(df.rows) |-> Ext(df.rows[i])]]

\* the two assignments one after the other
AddRecColumns(df) == AddSavingsColumn(AddRecColumn(df))

\* Series.sum(): NaN cells are skipped
RECURSIVE SumSkipNaN(_)
SumSkipNaN(s) ==
    IF s = <<>> THEN 0
    ELSE (IF IsNaN(Head(s)) THEN 0 ELSE Head(s)) + SumSkipNaN(Tail(s))

Column(df, c) == [i \in 1..Len(df.rows) |-> df.rows[i][c]]

PositiveSavings(df) == LET P(x) == FGt(x, 0) IN SelectSeq(Column(df, "savings"), P)
NegativeSavings(df) == LET N(x) == FLt(x, 0) IN SelectSeq(Column(df, "savings"), N)

NoResp == [status |-> 0]

-----------------------------------------------------------------------------
(* The request handlers, one request at a time *)

\* what every handler leaves behind: the effects of its load_data() call, the
\* table it leaves in the cache, and its response
Served(name, a, ld, newCache, r) ==
    /\ op' = name
    /\ args' = a
    /\ cache' = newCache
    /\ cacheBefore' = cache
    /\ tmpFile' = ld.tmp
    /\ loadRet' = ld.ret
    /\ tried' = ld.tried
    /\ raised' = ld.raised
    /\ resp' = r
    /\ UNCHANGED <<localFile, minioClient, minioObj>>
    /\ UNCHANGED recVars
    /\ UNCHANGED raceVars

\* the response of a handler whose load_data() raised
ServerError == [status |-> 500]

\* a 404 for an empty table
CustomersNoData == [status |-> 404, error |-> "No data loaded"]

\* customers: jsonify(customers=[], total=0) for an empty table
CustomersEmpty == [status |-> 200, page |-> <<>>, total |-> 0, input |-> <<>>]

\* recommend, top_savings, top_upsell, summary_stats:
\* jsonify(error="No data loaded"), 404
NoData == [status |-> 404, error |-> "No data loaded"]

\* __main__: the first load attempt before app.run
Main ==
    /\ op = "boot"
    /\ LET ld == load_data(cache, localFile, minioClient, minioObj, tmpFile)
       IN  Served("main", [none |-> TRUE], ld, ld.cache, NoResp)

\* GET /customers
Customers(a) ==
    LET ld == load_data(cache, localFile, minioClient, minioObj, tmpFile)
    IN  IF ld.raised # NoExc THEN Served("customers", a, ld, ld.cache, ServerError)
        ELSE IF IsEmpty(ld.ret) THEN Served("customers", a, ld, ld.cache, CustomersEmpty)
        ELSE LET results == CustomerRecords(ld.ret)
             IN  \E out \in apply_filters_sort_limit(ld.ret, results, a, "customer_id", "asc") :
                    Served("customers", a, ld, ld.cache,
                           [status |-> 200, page |-> out.page, total |-> out.total,
                            input |-> results])

\* GET /recommend/<int:customer_id>
Recommend(id) ==
    LET ld == load_data(cache, localFile, minioClient, minioObj, tmpFile)
        a  == [customer_id |-> id]
    IN  IF ld.raised # NoExc THEN Served("recommend", a, ld, ld.cache, ServerError)
        ELSE IF IsEmpty(ld.ret) THEN Served("recommend", a, ld, ld.cache, NoData)
        ELSE LET row == FilterId(ld.ret, id)
             IN  IF IsEmpty(row)
                 THEN Served("recommend", a, ld, ld.cache,
                             [status |-> 404, error |-> "Customer not found"])
                 ELSE Served("recommend", a, ld, ld.cache,
                             [status |-> 200, rec |-> recommend_plan(row.rows[1])])

\* GET /top_savings
TopSavings(a) ==
    LET ld == load_data(cache, localFile, minioClient, minioObj, tmpFile)
    IN  IF ld.raised # NoExc THEN Served("top_savings", a, ld, ld.cache, ServerError)
        ELSE IF IsEmpty(ld.ret) THEN Served("top_savings", a, ld, ld.cache, NoData)
        ELSE LET results == SavingsResults(ld.ret)
             IN  \E out \in apply_filters_sort_limit(ld.ret, results, a, "estimated_savings", "desc") :
                    Served("top_savings", a, ld, ld.cache,
                           [status |-> 200, page |-> out.page, total |-> out.total,
                            input |-> results])

\* GET /top_upsell
TopUpsell(a) ==
    LET ld == load_data(cache, localFile, minioClient, minioObj, tmpFile)
    IN  IF ld.raised # NoExc THEN Served("top_upsell", a, ld, ld.cache, ServerError)
        ELSE IF IsEmpty(ld.ret) THEN Served("top_upsell", a, ld, ld.cache, NoData)
        ELSE LET results == UpsellResults(ld.ret)
             IN  \E out \in apply_filters_sort_limit(ld.ret, results, a, "estimated_savings", "asc") :
                    Served("top_upsell", a, ld, ld.cache,
                           [status |-> 200, page |-> out.page, total |-> out.total,
                            input |-> results])

\* GET /summary_stats.  Without a region filter df is the cached frame itself
\* and the two column assignments change it; with one, df is a new frame.
\* (The mean of avg_monthly_spend is part of the response only and left out.)
SummaryStats(a) ==
    LET ld == load_data(cache, localFile, minioClient, minioObj, tmpFile)
        region_filter == a.region
        filters == region_filter \notin {NoArg, ""}
    IN  IF ld.raised # NoExc THEN Served("summary_stats", a, ld, ld.cache, ServerError)
        ELSE IF IsEmpty(ld.ret) THEN Served("summary_stats", a, ld, ld.cache, NoData)
        ELSE LET df0 == IF filters THEN FilterRegion(ld.ret, region_filter) ELSE ld.ret
             IN  IF IsEmpty(df0)
                 THEN Served("summary_stats", a, ld, ld.cache,
                             [status |-> 404, error |-> "No data found for region"])
                 ELSE LET df == AddRecColumns(df0)
                          results == df.rows
                          newCache == IF filters THEN ld.cache ELSE AddRecColumns(ld.cache)
                      IN  \E out \in apply_filters_sort_limit(df, results, a, "savings", "desc") :
                             Served("summary_stats", a, ld, newCache,
                                    [status |-> 200, page |-> out.page, total |-> out.total,
                                     input |-> results,
                                     total_customers |-> Len(df.rows),
                                     total_current_spend |-> Round2(SumSkipNaN(Column(df, "avg_monthly_spend"))),
                                     savings_count |-> Len(PositiveSavings(df)),
                                     total_potential_savings |-> Round2(SumSkipNaN(PositiveSavings(df))),
                                     upsell_count |-> Len(NegativeSavings(df)),
                                     total_potential_revenue |-> Round2(0 - SumSkipNaN(NegativeSavings(df)))])

-----------------------------------------------------------------------------
(* Sample data *)

Row(id, name, region, data, mins, sms, spend) ==
    [c \in ExpectedColumns |->
        CASE c = "customer_id"         -> id
          [] c = "name"                -> name
          [] c = "region"              -> region
          [] c = "avg_monthly_data_gb" -> data
          [] c = "avg_monthly_minutes" -> mins
          [] c = "avg_monthly_sms"     -> sms
          [] c = "avg_monthly_spend"   -> spend]

\* the file at CUSTOMER_DATA: one customer who overpays, one to upsell
LocalTable ==
    [cols |-> ExpectedColumns,
     rows |-> << Row(1, "Amit Sharma", "North", 5, 100, 50, 399 * Scale),
                 Row(2, "Kiran Patel", "south", 120, 2500, 1200, 499 * Scale) >>]

\* the object in the bucket: one customer on the right plan, one who overpays
RemoteTable ==
    [cols |-> ExpectedColumns,
     rows |-> << Row(3, "Ravi Nair", "SOUTH", 40, 800, 300, 499 * Scale),
                 Row(4, "Neha Verma", "North", 40, 800, 300, 699 * Scale) >>]

\* a CSV as upload_to_minio.py writes it: customer_id and columns the
\* application does not know
LegacyTable ==
    [cols |-> {"customer_id", "plan"},
     rows |-> << [customer_id |-> 7, plan |-> "prepaid"] >>]

\* a CSV with its header line and no rows
HeaderOnly == [cols |-> ExpectedColumns, rows |-> <<>>]

LocalFiles  == {Absent, Corrupt, Csv(HeaderOnly), Csv(LocalTable)}
RemoteObjs  == {Unreachable, NoBucket, NoObject, Corrupt, Csv(LegacyTable), Csv(RemoteTable)}
ClientKinds == {"unconfigured", "ctor_fails", "ok"}

\* the query strings of Spec
DefaultArgs == [region |-> NoArg, sort |-> NoArg, order |-> NoArg, limit |-> NoLimit]
SpecArgs ==
    { DefaultArgs,
      [DefaultArgs EXCEPT !.region = "north"],
      [DefaultArgs EXCEPT !.region = "west"],
      [DefaultArgs EXCEPT !.limit = IntLimit(1)] }
SpecIds == {1, 3, 9}

\* the query strings of SpecData
AllArgs ==
    [ region : {NoArg, "north", "SOUTH", "west"},
      sort   : {NoArg, "customer_id", "avg_monthly_spend", "bogus"},
      order  : {NoArg, "asc", "DESC"},
      limit  : {NoLimit, TextLimit} \cup {IntLimit(n) : n \in (0 - MaxLimit)..MaxLimit} ]

\* the rows of the enumerated tables: savings above, below and at zero, a
\* second row for customer 1, a blank spend cell, and a spend a fraction of a
\* paisa above the plan price
DataRows ==
    { Row(1, "Amit Sharma", "North", 5, 100, 50, 399 * Scale),
      Row(2, "Kiran Patel", "south", 120, 2500, 1200, 499 * Scale),
      Row(3, "Ravi Nair", "North", 40, 800, 300, 499 * Scale),
      Row(1, "Amit Sharma", "south", 5, 100, 50, 100 * Scale),
      Row(4, "Divya Iyer", "SOUTH", 5, 100, 50, NaN),
      Row(5, "Anil Das", "North", 5, 100, 50, 199 * Scale + 4) }

RECURSIVE SeqsUpTo(_, _)
SeqsUpTo(S, n) ==
    IF n = 0 THEN {<<>>}
    ELSE LET shorter == SeqsUpTo(S, n - 1)
         IN  shorter \cup {Append(s, x) : s \in {t \in shorter : Len(t) = n - 1}, x \in S}

DataTables == {[cols |-> ExpectedColumns, rows |-> rs] : rs \in SeqsUpTo(DataRows, MaxRows)}

-----------------------------------------------------------------------------
(* The world outside the process *)

\* the file at CUSTOMER_DATA is written, replaced or removed
LocalFileChanges ==
    /\ \E f \in LocalFiles : f # localFile /\ localFile' = f
    /\ op' = "env"
    /\ UNCHANGED <<cache, cacheBefore, minioClient, minioObj, tmpFile, args, loadRet, tried, raised, resp>>
    /\ UNCHANGED recVars
    /\ UNCHANGED raceVars

\* the object store goes away, comes back, or its object is replaced
ObjectStoreChanges ==
    /\ \E o \in RemoteObjs : o # minioObj /\ minioObj' = o
    /\ op' = "env"
    /\ UNCHANGED <<cache, cacheBefore, localFile, minioClient, tmpFile, args, loadRet, tried, raised, resp>>
    /\ UNCHANGED recVars
    /\ UNCHANGED raceVars

-----------------------------------------------------------------------------
(* Initial values of the variables a specification does not use *)

NoCustomer == [none |-> TRUE]

RecIdle ==
    /\ customer = NoCustomer
    /\ rec = NoCustomer

RaceIdle ==
    /\ heap = <<>>
    /\ cacheRef = 0
    /\ pc = <<>>
    /\ local = <<>>
    /\ reqs = 0
    /\ changes = 0

RepoStart ==
    /\ cache = None
    /\ cacheBefore = None
    /\ tmpFile = Absent
    /\ op = "boot"
    /\ args = [none |-> TRUE]
    /\ loadRet = None
    /\ tried = <<>>
    /\ raised = NoExc
    /\ resp = NoResp

-----------------------------------------------------------------------------
(* Spec: the handlers, one request at a time, over changing sources *)

Init ==
    /\ RepoStart
    /\ localFile \in LocalFiles
    /\ minioClient \in ClientKinds
    /\ minioObj \in RemoteObjs
    /\ RecIdle
    /\ RaceIdle

Next ==
    \/ Main
    \/ \E a \in SpecArgs : Customers(a)
    \/ \E a \in SpecArgs : TopSavings(a)
    \/ \E a \in SpecArgs : TopUpsell(a)
    \/ \E a \in SpecArgs : SummaryStats(a)
    \/ \E id \in SpecIds : Recommend(id)
    \/ LocalFileChanges
    \/ ObjectStoreChanges

Spec == Init /\ [][Next]_vars

-----------------------------------------------------------------------------
(* SpecData: one request, any query string, over an enumerated table *)

InitData ==
    /\ RepoStart
    /\ localFile \in {Csv(t) : t \in DataTables}
    /\ minioClient = "unconfigured"
    /\ minioObj = NoBucket
    /\ RecIdle
    /\ RaceIdle

NextData ==
    /\ op = "boot"
    /\ \/ \E a \in AllArgs : Customers(a)
       \/ \E a \in AllArgs : TopSavings(a)
       \/ \E a \in AllArgs : TopUpsell(a)
       \/ \E a \in AllArgs : SummaryStats(a)

SpecData == InitData /\ [][NextData]_vars

-----------------------------------------------------------------------------
(* SpecRec: recommend_plan over usage profiles on and around the bounds *)

DataValues  == {0, 7, 8, 9, 79, 80, 81, NaN}
MinsValues  == {0, 299, 300, 301, 1499, 1500, NaN}
SmsValues   == {0, 149, 150, 151, 999, 1000, NaN}
SpendValues == {0, 199 * Scale, 399 * Scale, NaN}

Profiles ==
    [ customer_id         : {1},
      avg_monthly_data_gb : DataValues,
      avg_monthly_minutes : MinsValues,
      avg_monthly_sms     : SmsValues,
      avg_monthly_spend   : SpendValues ]

RepoIdle ==
    /\ RepoStart
    /\ localFile = Absent
    /\ minioClient = "unconfigured"
    /\ minioObj = NoBucket

InitRec ==
    /\ customer \in Profiles
    /\ rec = NoCustomer
    /\ RepoIdle
    /\ RaceIdle

\* rec = recommend_plan(customer)
RecommendPlan ==
    /\ rec = NoCustomer
    /\ rec' = recommend_plan(customer)
    /\ UNCHANGED customer
    /\ UNCHANGED repoVars
    /\ UNCHANGED raceVars

NextRec == RecommendPlan

SpecRec == InitRec /\ [][NextRec]_vars

-----------------------------------------------------------------------------
(* SpecRace: request threads of the threaded server, statement by          *)
(* statement.  A DataFrame is an object of the heap; _customers_cache and  *)
(* the threads' variables df hold references (0 is None), so that an       *)
(* assignment to a column shows through every reference to the frame.      *)

Threads == {"t1", "t2"}

RaceEndpoints == {"customers", "summary_stats"}

RaceLocalFiles == {Absent, Corrupt, Csv(LocalTable)}
RaceRemoteObjs == {NoObject, Csv(LegacyTable)}

IdleLocal == [ep |-> "", id |-> 0, path |-> "", ret |-> 0]

Deref(h, r) == IF r = 0 THEN None ELSE h[r]

\* objects nothing refers to any more are freed
Collect(h, cref, loc) ==
    [i \in DOMAIN h |->
        IF i = cref \/ \E t \in Threads : loc[t].id = i \/ loc[t].ret = i
        THEN h[i] ELSE None]

InitRace ==
    /\ RepoStart
    /\ localFile \in RaceLocalFiles
    /\ minioClient \in {"unconfigured", "ok"}
    /\ minioObj \in RaceRemoteObjs
    /\ RecIdle
    /\ heap = [i \in 1..MaxRequests |-> None]
    /\ cacheRef = 0
    /\ pc = [t \in Threads |-> "idle"]
    /\ local = [t \in Threads |-> IdleLocal]
    /\ reqs = 0
    /\ changes = 0

RaceFrame == UNCHANGED <<cache, cacheBefore, op, args, loadRet, tried, raised, resp, customer, rec>>

\* the next statement of thread t: its new position and locals, the heap and
\* the cache reference after it
Step(t, newPc, newLocal, newHeap, newRef) ==
    /\ pc' = [pc EXCEPT ![t] = newPc]
    /\ local' = [local EXCEPT ![t] = newLocal]
    /\ cacheRef' = newRef
    /\ heap' = Collect(newHeap, newRef, [local EXCEPT ![t] = newLocal])
    /\ UNCHANGED <<reqs, changes>>
    /\ RaceFrame

\* a request arrives and a thread takes it
RaceStart(t, ep) ==
    /\ pc[t] = "idle"
    /\ reqs < MaxRequests
    /\ reqs' = reqs + 1
    /\ pc' = [pc EXCEPT ![t] = "check"]
    /\ local' = [local EXCEPT ![t] = [ep |-> ep, id |-> reqs + 1, path |-> "", ret |-> 0]]
    /\ UNCHANGED <<heap, cacheRef, changes, localFile, minioClient, minioObj, tmpFile>>
    /\ RaceFrame

\* load_data: if _customers_cache is not None and not _customers_cache.empty
RaceCheck(t) ==
    /\ pc[t] = "check"
    /\ Step(t, IF CacheHit(Deref(heap, cacheRef)) THEN "return" ELSE "exists",
            local[t], heap, cacheRef)
    /\ UNCHANGED <<localFile, minioClient, minioObj, tmpFile>>

\* ensure_customer_data_available: os.path.exists(CUSTOMER_DATA), get_minio_client()
RaceExists(t) ==
    /\ pc[t] = "exists"
    /\ IF Exists(localFile)
       THEN Step(t, "read", [local[t] EXCEPT !.path = "local"], heap, cacheRef)
       ELSE IF get_minio_client(minioClient)
       THEN Step(t, "download", local[t], heap, cacheRef)
       ELSE Step(t, "fallback", local[t], heap, cacheRef)
    /\ UNCHANGED <<localFile, minioClient, minioObj, tmpFile>>

\* ensure_customer_data_available: download_customer_data_from_minio(minio_client)
RaceDownload(t) ==
    /\ pc[t] = "download"
    /\ LET d == download_customer_data_from_minio(minioObj, tmpFile)
       IN  /\ tmpFile' = d.tmp
           /\ IF d.exc = NoExc
              THEN Step(t, "read", [local[t] EXCEPT !.path = "tmp"], heap, cacheRef)
              ELSE Step(t, "fallback", local[t], heap, cacheRef)
    /\ UNCHANGED <<localFile, minioClient, minioObj>>

\* load_data: df = pd.read_csv(csv_path)
RaceRead(t) ==
    /\ pc[t] = "read"
    /\ LET r == read_csv(IF local[t].path = "local" THEN localFile ELSE tmpFile)
       IN  IF r.exc = NoExc
           THEN Step(t, "normalize", local[t], [heap EXCEPT ![local[t].id] = r.df], cacheRef)
           ELSE Step(t, "fallback", local[t], heap, cacheRef)
    /\ UNCHANGED <<localFile, minioClient, minioObj, tmpFile>>

\* load_data: the column loop and the cast, on the thread's own frame
RaceNormalize(t) ==
    /\ pc[t] = "normalize"
    /\ Step(t, "assign", local[t],
            [heap EXCEPT ![local[t].id] = NormalizeColumns(heap[local[t].id])], cacheRef)
    /\ UNCHANGED <<localFile, minioClient, minioObj, tmpFile>>

\* load_data: _customers_cache = df
RaceAssign(t) ==
    /\ pc[t] = "assign"
    /\ Step(t, "return", local[t], heap, local[t].id)
    /\ UNCHANGED <<localFile, minioClient, minioObj, tmpFile>>

\* load_data, either except clause: _customers_cache = pd.DataFrame(columns=[...])
RaceFallback(t) ==
    /\ pc[t] = "fallback"
    /\ Step(t, "return", local[t], [heap EXCEPT ![local[t].id] = EmptyDataFrame], local[t].id)
    /\ UNCHANGED <<localFile, minioClient, minioObj, tmpFile>>

\* load_data: return _customers_cache
RaceReturn(t) ==
    /\ pc[t] = "return"
    /\ Step(t, "body", [local[t] EXCEPT !.ret = cacheRef], heap, cacheRef)
    /\ UNCHANGED <<localFile, minioClient, minioObj, tmpFile>>

\* the handler after df = load_data(): customers answers from the frame;
\* summary_stats (no region filter) answers 404 for an empty frame and goes
\* on to the column assignments otherwise
RaceBody(t) ==
    /\ pc[t] = "body"
    /\ IF local[t].ep = "summary_stats" /\ ~IsEmpty(heap[local[t].ret])
       THEN Step(t, "rec", local[t], heap, cacheRef)
       ELSE Step(t, "idle", IdleLocal, heap, cacheRef)
    /\ UNCHANGED <<localFile, minioClient, minioObj, tmpFile>>

\* summary_stats: df["rec"] = ...
RaceAddRec(t) ==
    /\ pc[t] = "rec"
    /\ Step(t, "savings", local[t],
            [heap EXCEPT ![local[t].ret] = AddRecColumn(heap[local[t].ret])], cacheRef)
    /\ UNCHANGED <<localFile, minioClient, minioObj, tmpFile>>

\* summary_stats: df["savings"] = ... and the rest of the handler, which
\* reads only
RaceAddSavings(t) ==
    /\ pc[t] = "savings"
    /\ Step(t, "idle", IdleLocal,
            [heap EXCEPT ![local[t].ret] = AddSavingsColumn(heap[local[t].ret])], cacheRef)
    /\ UNCHANGED <<localFile, minioClient, minioObj, tmpFile>>

\* the file at CUSTOMER_DATA or the object in the bucket changes under the
\* running requests
RaceSourcesChange ==
    /\ changes < MaxChanges
    /\ changes' = changes + 1
    /\ \/ /\ \E f \in RaceLocalFiles : f # localFile /\ localFile' = f
          /\ UNCHANGED minioObj
       \/ /\ \E o \in RaceRemoteObjs : o # minioObj /\ minioObj' = o
          /\ UNCHANGED localFile
    /\ UNCHANGED <<minioClient, tmpFile, heap, cacheRef, pc, local, reqs>>
    /\ RaceFrame

NextRace ==
    \/ \E t \in Threads, ep \in RaceEndpoints : RaceStart(t, ep)
    \/ \E t \in Threads : RaceCheck(t)
    \/ \E t \in Threads : RaceExists(t)
    \/ \E t \in Threads : RaceDownload(t)
    \/ \E t \in Threads : RaceRead(t)
    \/ \E t \in Threads : RaceNormalize(t)
    \/ \E t \in Threads : RaceAssign(t)
    \/ \E t \in Threads : RaceFallback(t)
    \/ \E t \in Threads : RaceReturn(t)
    \/ \E t \in Threads : RaceBody(t)
    \/ \E t \in Threads : RaceAddRec(t)
    \/ \E t \in Threads : RaceAddSavings(t)
    \/ RaceSourcesChange

SpecRace == InitRace /\ [][NextRace]_vars

-----------------------------------------------------------------------------
(* Vocabulary of the properties *)

LoadingOps  == {"main", "customers", "recommend", "top_savings", "top_upsell", "summary_stats"}
HandlerOps  == LoadingOps \ {"main"}
ListingOps  == {"customers", "top_savings", "top_upsell", "summary_stats"}

\* a table with rows / a table without / no table
Populated(c) == c # None /\ Len(c.rows) > 0
ZeroRows(c)  == c # None /\ Len(c.rows) = 0

\* a file a table can be read from
Readable(f) == f.kind = "csv"

\* the table a file holds, with the missing expected columns filled in:
\* "" for name and region, 0 for the figures
Filled(f) ==
    [cols |-> f.df.cols \cup ExpectedColumns,
     rows |-> [i \in 1..Len(f.df.rows) |->
                 [c \in f.df.cols \cup ExpectedColumns |->
                    IF c \in f.df.cols THEN f.df.rows[i][c]
                    ELSE IF c \in {"name", "region"} THEN "" ELSE 0]]]

-----------------------------------------------------------------------------
(* C5 *)

\* C5: for every usage profile recommend_plan picks Basic exactly when
\* data < 8 and minutes < 300 and sms < 150, otherwise Standard exactly when
\* data < 80 and minutes < 1500 and sms < 1000, otherwise Premium; a value at a
\* Basic bound falls to Standard, any of data >= 80, minutes >= 1500,
\* sms >= 1000 gives Premium, and estimated_monthly_bill is the price of the
\* plan picked.
C5_PlanSelection ==
    rec # NoCustomer =>
        LET d == customer.avg_monthly_data_gb
            m == customer.avg_monthly_minutes
            t == customer.avg_monthly_sms
            num   == ~IsNaN(d) /\ ~IsNaN(m) /\ ~IsNaN(t)
            basic == num /\ d < 8 /\ m < 300 /\ t < 150
            std   == num /\ d < 80 /\ m < 1500 /\ t < 1000
            atBound == num /\ (d = 8 \/ m = 300 \/ t = 150) /\ d <= 8 /\ m <= 300 /\ t <= 150
            over  == \/ (~IsNaN(d) /\ d >= 80)
                     \/ (~IsNaN(m) /\ m >= 1500)
                     \/ (~IsNaN(t) /\ t >= 1000)
        IN  /\ (rec.recommended_plan = "Basic") <=> basic
            /\ (rec.recommended_plan = "Standard") <=> (~basic /\ std)
            /\ (rec.recommended_plan = "Premium") <=> (~basic /\ ~std)
            /\ atBound => rec.recommended_plan = "Standard"
            /\ over => rec.recommended_plan = "Premium"
            /\ rec.estimated_monthly_bill =
                  (CASE rec.recommended_plan = "Basic"    -> 199 * Scale
                     [] rec.recommended_plan = "Standard" -> 499 * Scale
                     [] rec.recommended_plan = "Premium"  -> 999 * Scale)

\* a profile with data exactly 8 and the other figures under the Basic
\* bounds, recommended Standard
C5_Witness ==
    /\ rec # NoCustomer
    /\ customer.avg_monthly_data_gb = 8
    /\ customer.avg_monthly_minutes = 299
    /\ customer.avg_monthly_sms = 149
    /\ rec.recommended_plan = "Standard"
    /\ rec.estimated_monthly_bill = 499 * Scale

-----------------------------------------------------------------------------
(* C10 *)

\* the frame without the columns summary_stats adds
WithoutRecColumns(df) ==
    [cols |-> df.cols \ {"rec", "savings"},
     rows |-> [i \in 1..Len(df.rows) |-> [c \in df.cols \ {"rec", "savings"} |-> df.rows[i][c]]]]

\* C10: with requests calling load_data concurrently, _customers_cache is at
\* every moment None or a frame that has all seven expected columns in every
\* row; so is every frame load_data has returned to a request; and while the
\* sources have not changed, the frame in the cache holds what one load alone
\* would have put there, so that the race costs only repeated fetches.
C10_CacheNeverPartial ==
    /\ cacheRef # 0 => Complete(heap[cacheRef])
    /\ \A t \in Threads : local[t].ret # 0 => Complete(heap[local[t].ret])
    /\ (changes = 0 /\ cacheRef # 0) =>
           WithoutRecColumns(heap[cacheRef]) =
               (IF Readable(localFile) THEN Filled(localFile)
                ELSE IF ~Exists(localFile) /\ minioClient = "ok" /\ Readable(minioObj)
                THEN Filled(minioObj)
                ELSE EmptyDataFrame)

\* both threads found the cache empty and loaded: one has assigned its frame,
\* made from a file without the expected columns, and the other is about to
\* assign its own
C10_Witness ==
    /\ pc["t1"] = "return"
    /\ pc["t2"] = "assign"
    /\ cacheRef = local["t1"].id
    /\ local["t2"].id # cacheRef
    /\ "plan" \in heap[cacheRef].cols
    /\ Complete(heap[cacheRef])

-----------------------------------------------------------------------------
(* C1 - C4: load_data as the handlers call it.  In a state whose op is a   *)
(* loading operation the sources are as that operation's load_data found   *)
(* them, and cacheBefore is the cache it found.                            *)

MissedCache == op \in LoadingOps /\ ~Populated(cacheBefore)

\* C1, as claimed: on a load with no populated cache the sources are tried in
\* the order local file, object store (a relational source does not exist in
\* the code); a source that fails, a local file that exists but cannot be
\* parsed included, is passed over for the next one, and the table returned
\* and cached is that of the first source that can be read.
C1_FallsThroughOnAnyFailure ==
    MissedCache =>
        /\ raised = NoExc
        /\ loadRet = (IF Readable(localFile) THEN Filled(localFile)
                      ELSE IF minioClient = "ok" /\ Readable(minioObj) THEN Filled(minioObj)
                      ELSE EmptyDataFrame)

\* C1, amended: on a load with no populated cache the local path is looked at
\* first and the object store second, and there is no third source.  The
\* object store is asked only when the local path does not exist and a client
\* is configured; a failed download is absorbed.  The file of the first source
\* that supplies one is parsed: its table is returned and cached, and when it
\* cannot be parsed the empty table is, without asking the next source.
C1_FallbackOrder ==
    MissedCache =>
        /\ raised = NoExc
        /\ tried \in {<<"local">>, <<"local", "minio">>}
        /\ Exists(localFile) =>
              /\ tried = <<"local">>
              /\ loadRet = (IF Readable(localFile) THEN Filled(localFile) ELSE EmptyDataFrame)
        /\ (~Exists(localFile) /\ minioClient = "ok") =>
              /\ tried = <<"local", "minio">>
              /\ loadRet = (IF Readable(minioObj) THEN Filled(minioObj) ELSE EmptyDataFrame)
        /\ (~Exists(localFile) /\ minioClient # "ok") =>
              /\ tried = <<"local">>
              /\ loadRet = EmptyDataFrame

\* the local path does not exist, the download succeeded, and the table of
\* the object (its missing columns filled in) is in the cache
C1_Witness ==
    /\ MissedCache
    /\ localFile = Absent
    /\ minioObj = Csv(LegacyTable)
    /\ tried = <<"local", "minio">>
    /\ Populated(cache)
    /\ loadRet = Filled(minioObj)
    /\ tmpFile = minioObj

\* no source can supply a table
AllSourcesFail ==
    /\ localFile \in {Absent, Corrupt}
    /\ minioClient # "ok" \/ ~Readable(minioObj)

\* C2: load_data never raises, and when every source fails (file missing or
\* unparsable, object store not configured, download failing, downloaded file
\* unparsable) it returns the table with no rows and exactly the seven
\* expected columns, and that table is in the cache.
C2_EmptyTableWhenAllFail ==
    op \in LoadingOps =>
        /\ raised = NoExc
        /\ (~Populated(cacheBefore) /\ AllSourcesFail) =>
              /\ loadRet # None
              /\ loadRet.rows = <<>>
              /\ loadRet.cols = ExpectedColumns
              /\ cache = loadRet

\* the local file is missing and the downloaded object cannot be parsed
C2_Witness ==
    /\ MissedCache
    /\ localFile = Absent
    /\ minioClient = "ok"
    /\ minioObj = Corrupt
    /\ tried = <<"local", "minio">>
    /\ cache = EmptyDataFrame
    /\ loadRet = EmptyDataFrame

\* C3: with a populated cache load_data returns the cached table as it is and
\* touches no source, whatever the sources have become; a handler that only
\* loads and reads leaves the cache as it was, so that load after load returns
\* the same table.
C3_PopulatedCacheReturned ==
    (op \in LoadingOps /\ Populated(cacheBefore)) =>
        /\ loadRet = cacheBefore
        /\ tried = <<>>
        /\ raised = NoExc
        /\ op # "summary_stats" => cache = cacheBefore

\* a request served from the cache while the local file is gone and the
\* object store does not answer
C3_Witness ==
    /\ op \in HandlerOps
    /\ Populated(cacheBefore)
    /\ loadRet = cacheBefore
    /\ tried = <<>>
    /\ localFile = Absent
    /\ minioObj = Unreachable

-----------------------------------------------------------------------------
(* C8, C9: the handlers' answers and what they leave in the cache *)

\* the customer id asked for is in no row of the table
IdAbsent(df, id) == \A i \in 1..Len(df.rows) : df.rows[i]["customer_id"] # id

\* the region asked for is that of no row of the table
RegionAbsent(df, region) ==
    /\ region \notin {NoArg, ""}
    /\ \A i \in 1..Len(df.rows) : Lower(df.rows[i]["region"]) # Lower(region)

\* C8, as claimed: when load_data yields a table without rows every collection
\* endpoint answers 200 with an empty collection, and the only 404 is that of
\* a customer id that is not in a table with rows.
C8_EmptyDatasetIs200 ==
    (op \in HandlerOps /\ loadRet # None) =>
        /\ (op \in ListingOps /\ Len(loadRet.rows) = 0) =>
              resp.status = 200 /\ resp.page = <<>>
        /\ resp.status = 404 =>
              op = "recommend" /\ Populated(loadRet) /\ IdAbsent(loadRet, args.customer_id)

\* C8, amended: when load_data yields a table without rows, customers answers
\* 200 with an empty list and total 0, and recommend, top_savings, top_upsell
\* and summary_stats answer 404; over a table with rows the only 404s are
\* recommend for a customer id not in the table and summary_stats for a region
\* no row is in, and every other request is answered 200.
C8_EmptyDatasetAnswers ==
    (op \in HandlerOps /\ loadRet # None) =>
        /\ (op = "customers" /\ Len(loadRet.rows) = 0) =>
              resp.status = 200 /\ resp.page = <<>> /\ resp.total = 0
        /\ (op # "customers" /\ Len(loadRet.rows) = 0) => resp.status = 404
        /\ Populated(loadRet) =>
              resp.status =
                 (IF \/ op = "recommend" /\ IdAbsent(loadRet, args.customer_id)
                     \/ op = "summary_stats" /\ RegionAbsent(loadRet, args.region)
                  THEN 404 ELSE 200)

\* top_savings over a table without rows answered 404
C8_Witness ==
    /\ op = "top_savings"
    /\ loadRet # None
    /\ Len(loadRet.rows) = 0
    /\ resp.status = 404

\* C9, as claimed: once the cache holds a table with rows no request handler
\* changes it: after the request the cache has the rows and the columns it
\* had before.
C9_CacheImmutable ==
    (op \in HandlerOps /\ Populated(cacheBefore)) => cache = cacheBefore

-----------------------------------------------------------------------------
(* C6, C7: the query pipeline *)

\* the records of the handler's list that the region parameter lets through
FilteredInput ==
    LET Keep(r) == args.region \in {NoArg, ""} \/ Lower(r.region) = Lower(args.region)
    IN  SelectSeq(resp.input, Keep)

\* the key and the direction the request sorts by
SortKey ==
    IF args.sort # NoArg THEN args.sort
    ELSE CASE op = "customers"   -> "customer_id"
           [] op = "summary_stats" -> "savings"
           [] OTHER               -> "estimated_savings"

Descending ==
    IF args.order # NoArg THEN args.order \in {"desc", "DESC"}
    ELSE op \in {"top_savings", "summary_stats"}

\* s is in the order asked for: no record is followed by one that belongs
\* before it (nothing is asked of records without the key, nor of NaN keys)
InOrder(s) ==
    \A i, j \in 1..Len(s) :
        (i < j /\ SortKey \in DOMAIN s[i] /\ ~IsNaN(s[i][SortKey]) /\ ~IsNaN(s[j][SortKey])) =>
            IF Descending THEN s[i][SortKey] >= s[j][SortKey]
                          ELSE s[i][SortKey] <= s[j][SortKey]

\* the page is the beginning of some ordering of the filtered records that is
\* in the order asked for (the filtered records as they came, when there is
\* no such key)
PageIsPrefix ==
    \E s \in Perms(FilteredInput) :
        /\ InOrder(s)
        /\ (FilteredInput # <<>> /\ SortKey \notin DOMAIN FilteredInput[1]) => s = FilteredInput
        /\ Len(resp.page) <= Len(s)
        /\ \A i \in 1..Len(resp.page) : resp.page[i] = s[i]

\* C6, as claimed: for every query, with any integer limit, the page has
\* min(limit, total) records, is a prefix of the filtered and sorted list, and
\* total is the number of records left by the filter.  (A page cannot have
\* fewer than no records: for a limit below zero the claim is read as asking
\* for the empty page, the reading kindest to the code.)
C6_PageLength ==
    (op \in ListingOps /\ resp.status = 200) =>
        /\ resp.total = Len(FilteredInput)
        /\ PageIsPrefix
        /\ args.limit.kind = "int" =>
              Len(resp.page) = Max(0, Min(args.limit.val, resp.total))

\* the sign classes of a row's estimated_savings
SavingsOf(row) == recommend_plan(row).estimated_savings
ClassesOf(row) ==
    {k \in {"savings", "upsell", "neither"} :
        \/ k = "savings" /\ SavingsOf(row) # NaN /\ SavingsOf(row) > 0
        \/ k = "upsell"  /\ SavingsOf(row) # NaN /\ SavingsOf(row) < 0
        \/ k = "neither" /\ SavingsOf(row) # NaN /\ SavingsOf(row) = 0}

\* C7, as claimed: every row of the loaded table is in exactly one of the
\* classes estimated_savings > 0, < 0, = 0; top_savings lists only rows of the
\* first, top_upsell only rows of the second, and no record is in both lists.
C7_SignPartition ==
    (op \in {"top_savings", "top_upsell"} /\ resp.status = 200) =>
        /\ \A i \in 1..Len(loadRet.rows) : Cardinality(ClassesOf(loadRet.rows[i])) = 1
        /\ op = "top_savings" =>
              \A i \in 1..Len(resp.page) :
                 resp.page[i].estimated_savings # NaN /\ resp.page[i].estimated_savings > 0
        /\ op = "top_upsell" =>
              \A i \in 1..Len(resp.page) :
                 resp.page[i].estimated_savings # NaN /\ resp.page[i].estimated_savings < 0
        /\ \A i \in 1..Len(SavingsResults(loadRet)), j \in 1..Len(UpsellResults(loadRet)) :
              SavingsResults(loadRet)[i] # UpsellResults(loadRet)[j]

====
